---- MODULE Spec2Model ----
(***************************************************************************)
(* A model of the news context analyzer (src/main.py): the retry-wrapped   *)
(* HTTP GET, the article body extraction cascade, the publisher and date   *)
(* helpers, and the three search tools with their concurrent fan-out of    *)
(* extractions.                                                            *)
(*                                                                         *)
(* Python strings are sequences of one-character strings.  A Hangul        *)
(* syllable of a fixed message is written "k"; spaces and punctuation are  *)
(* kept, so that lengths are those of the source's literals.               *)
(***************************************************************************)
EXTENDS Integers, Sequences, FiniteSets, TLC

VARIABLES
    \* --- one call of make_request_with_retry, observed alone (SpecRetry)
    req,            \* the call's frame: pc, attempt, max_retries, result
    history,        \* the outcome of each GET attempt made so far
    logs,           \* the level of each log entry emitted so far
    delays,         \* number of asyncio.sleep(RETRY_DELAY) started so far
    \* --- one call of extract_article_content, observed alone (SpecExtract)
    exUrl,          \* the url argument
    exReq,          \* the frame of its make_request_with_retry call
    exPage,         \* the page the fetch returned (NoPage until then)
    exResult,       \* how the call ended (Pending until then)
    \* --- one tool invocation (Spec)
    tool,           \* the tool invoked
    toolPc,         \* "idle", "search", "gather", "done"
    keyword,        \* the keyword argument as received
    search,         \* the frame of the search-API request
    data,           \* the body of the search response (NoData until read)
    tasks,          \* the frame of each extraction's request
    taskResult,     \* how each extraction ended (Pending until then)
    completionOrder,\* the item indices in the order their extraction ended
    httpAttempted,  \* TRUE once a GET was issued in this invocation
    output,         \* how the tool function ended (Pending until then)
    \* --- one call of extract_publisher, observed alone (SpecPublisher)
    pubItem,        \* the item argument
    pubResult,      \* how the call ended (Pending until then)
    \* --- format_date applied twice in a row (SpecDate)
    fdCase,         \* the date_str argument, with what it was built from
    fdOnce,         \* format_date(date_str) (Pending until then)
    fdTwice         \* format_date(format_date(date_str)) (Pending until then)

retryVars == <<req, history, logs, delays>>
extractVars == <<exUrl, exReq, exPage, exResult>>
toolVars == <<tool, toolPc, keyword, search, data, tasks, taskResult,
              completionOrder, httpAttempted, output>>
pureVars == <<pubItem, pubResult, fdCase, fdOnce, fdTwice>>
vars == <<req, history, logs, delays, exUrl, exReq, exPage, exResult,
          tool, toolPc, keyword, search, data, tasks, taskResult,
          completionOrder, httpAttempted, output,
          pubItem, pubResult, fdCase, fdOnce, fdTwice>>

-----------------------------------------------------------------------------
(* Configuration constants *)

MAX_RETRIES == 3

MAX_CONTENT_LENGTH == 1000

MIN_PARAGRAPH_LENGTH == 50

(* Bounds of the model *)

\* largest max_retries argument tried on make_request_with_retry alone
MaxAttemptsArg == 4

\* largest number of items in a search response
MaxItems == 2

-----------------------------------------------------------------------------
(* The outcomes of one GET attempt: a response with a status code, a       *)
(* timeout (httpx.TimeoutException), another transport error               *)
(* (httpx.RequestError), or an exception that is no httpx error.           *)

StatusCodes == {200, 304, 401, 403, 404, 429, 500, 503}

Response(code) == [kind |-> "response", code |-> code]
TimeoutOutcome == [kind |-> "timeout", code |-> 0]
NetworkOutcome == [kind |-> "network", code |-> 0]
OtherOutcome == [kind |-> "other", code |-> 0]

Outcomes ==
    {Response(c) : c \in StatusCodes}
        \cup {TimeoutOutcome, NetworkOutcome, OtherOutcome}

\* the outcomes tried on the GETs of the fan-out's extractions
PublisherOutcomes ==
    {Response(200), Response(404), Response(503),
     TimeoutOutcome, NetworkOutcome}

NoOutcome == [kind |-> "none", code |-> 0]

\* response.raise_for_status() raises unless the status is 2xx
IsSuccess(o) == o.kind = "response" /\ o.code >= 200 /\ o.code <= 299

IsStatusError(o) == o.kind = "response" /\ ~IsSuccess(o)

\* the statuses the HTTPStatusError handler retries
\* (variant that forgets 429, for the sensitivity check of C1)
RetryableStatusBuggy(code) == code >= 500
RetryableStatus(code) == code = 429 \/ code >= 500

\* "attempts remain": the loop has another iteration after this one
\* (variant off by one, for the sensitivity check of C2)
AttemptsRemainBuggy(r) == r.attempt < r.max
AttemptsRemain(r) == r.attempt < r.max - 1

-----------------------------------------------------------------------------
(* make_request_with_retry.  A frame is at "get" while a GET is in flight, *)
(* at "sleep" while it sleeps before the next attempt, and ends at         *)
(* "returned" (result is the response), "raised" (result is the failure    *)
(* re-raised) or "fellout" (the loop ran out: the function returns None).  *)

NoFrame == [pc |-> "none", attempt |-> 0, max |-> 0, result |-> NoOutcome]

\* entering the function: range(max_retries) is empty for max_retries <= 0
StartRequest(max) ==
    [pc |-> IF max >= 1 THEN "get" ELSE "fellout",
     attempt |-> 0, max |-> max, result |-> NoOutcome]

\* the handler a failed attempt lands in decides between sleep and raise
\* (variant sleeping after the last attempt too, for the sensitivity check
\* of C19)
ShouldRetryAfterLast(r, o) ==
    IF IsStatusError(o) THEN RetryableStatus(o.code) ELSE TRUE
ShouldRetry(r, o) ==
    IF o.kind = "timeout" THEN AttemptsRemain(r)
    ELSE IF IsStatusError(o) THEN RetryableStatus(o.code) /\ AttemptsRemain(r)
    ELSE AttemptsRemain(r)

\* The GET of frame r ends with outcome o: the rest of the loop body
\* (variant whose handlers do not re-raise, for the sensitivity check of
\* C20)
AttemptDoneNoRaise(r, o) ==
    IF IsSuccess(o) THEN [r EXCEPT !.pc = "returned", !.result = o]
    ELSE IF ShouldRetry(r, o) THEN [r EXCEPT !.pc = "sleep"]
    ELSE IF r.attempt + 1 < r.max
    THEN [r EXCEPT !.pc = "get", !.attempt = r.attempt + 1]
    ELSE [r EXCEPT !.pc = "fellout", !.attempt = r.attempt + 1]
AttemptDone(r, o) ==
    IF IsSuccess(o) THEN [r EXCEPT !.pc = "returned", !.result = o]
    ELSE IF ShouldRetry(r, o) THEN [r EXCEPT !.pc = "sleep"]
    ELSE [r EXCEPT !.pc = "raised", !.result = o]

\* The sleep of frame r ends: the next iteration of the for loop
SleepDone(r) ==
    IF r.attempt + 1 < r.max
    THEN [r EXCEPT !.pc = "get", !.attempt = r.attempt + 1]
    ELSE [r EXCEPT !.pc = "fellout", !.attempt = r.attempt + 1]

\* The log entries the handlers emit for outcome o (none on success)
\* (variant logging every failure as a warning, for the sensitivity check
\* of C18)
LogEntriesAllWarning(o) ==
    IF IsSuccess(o) THEN <<>> ELSE <<"warning">>
LogEntries(o) ==
    IF IsSuccess(o) THEN <<>>
    ELSE IF o.kind = "timeout" THEN <<"warning">>
    ELSE <<"error">>

Ended(r) == r.pc \in {"returned", "raised", "fellout"}

-----------------------------------------------------------------------------
(* Strings *)

IsSpace(c) == c \in {" ", "\t", "\n"}

Reverse(s) == [i \in 1..Len(s) |-> s[Len(s) + 1 - i]]

\* number of leading whitespace characters of s (Len(s) if s is all space)
LeadingSpace(s) ==
    IF \A i \in 1..Len(s) : IsSpace(s[i]) THEN Len(s)
    ELSE (CHOOSE i \in 1..Len(s) :
            ~IsSpace(s[i]) /\ \A j \in 1..(i - 1) : IsSpace(s[j])) - 1

\* str.strip()
Strip(s) ==
    IF LeadingSpace(s) = Len(s) THEN <<>>
    ELSE SubSeq(s, LeadingSpace(s) + 1, Len(s) - LeadingSpace(Reverse(s)))

\* re.sub(r'\s+', ' ', s): every maximal run of whitespace becomes one space
CollapseSpace(s) ==
    LET marked == [i \in 1..Len(s) |->
                     [c |-> IF IsSpace(s[i]) THEN " " ELSE s[i],
                      keep |-> \/ ~IsSpace(s[i])
                               \/ i = 1
                               \/ ~IsSpace(s[i - 1])]]
        kept == SelectSeq(marked, LAMBDA m : m.keep)
    IN  [i \in 1..Len(kept) |-> kept[i].c]

\* re.sub(r'\s+', ' ', content).strip()
NormalizeSpace(s) == Strip(CollapseSpace(s))

\* the truncation marker "..."
TRUNCATION_MARKER == <<".", ".", ".">>

\* (variant that appends the marker without cutting, for the sensitivity
\* check of C11)
TruncateNoCut(content) ==
    content \o (IF Len(content) > MAX_CONTENT_LENGTH
                THEN <<".", ".", ".">> ELSE <<>>)

\* (variant that marks a content of exactly the maximum length, for the
\* sensitivity check of C12)
TruncateMarksAtMax(content) ==
    SubSeq(content, 1,
           IF Len(content) < MAX_CONTENT_LENGTH
           THEN Len(content) ELSE MAX_CONTENT_LENGTH)
        \o (IF Len(content) >= MAX_CONTENT_LENGTH
            THEN <<".", ".", ".">> ELSE <<>>)

\* content[:MAX_CONTENT_LENGTH] + ("..." if len(content) > MAX_CONTENT_LENGTH else "")
Truncate(content) ==
    SubSeq(content, 1,
           IF Len(content) < MAX_CONTENT_LENGTH
           THEN Len(content) ELSE MAX_CONTENT_LENGTH)
        \o (IF Len(content) > MAX_CONTENT_LENGTH
            THEN TRUNCATION_MARKER ELSE <<>>)

RECURSIVE Concat(_)
\* ''.join(parts)
Concat(parts) ==
    IF parts = <<>> THEN <<>> ELSE Head(parts) \o Concat(Tail(parts))

RECURSIVE JoinSpace(_)
\* ' '.join(parts)
JoinSpace(parts) ==
    IF parts = <<>> THEN <<>>
    ELSE IF Len(parts) = 1 THEN Head(parts)
    ELSE Head(parts) \o <<" ">> \o JoinSpace(Tail(parts))

\* n copies of character c
Rep(c, n) == [i \in 1..n |-> c]

-----------------------------------------------------------------------------
(* Pages.  A fetched page is described by what the extractor's selectors   *)
(* find in it: the element select_one finds for the Naver containers, the  *)
(* first element select finds for the generic containers, and the list of  *)
(* p elements.  An element is the list of its text nodes in document       *)
(* order; a node inside script, style, .end_photo_org or .reporter_area is *)
(* marked junk.                                                            *)

Node(text) == [text |-> text, junk |-> FALSE]
JunkNode(text) == [text |-> text, junk |-> TRUE]

NoElem == [found |-> FALSE, nodes |-> <<>>]
Elem(nodes) == [found |-> TRUE, nodes |-> nodes]

\* Tag.get_text(strip=True): each text node stripped, empty ones dropped,
\* joined with no separator
GetTextStrip(nodes) == Concat([i \in 1..Len(nodes) |-> Strip(nodes[i].text)])

\* element.extract() for every script, style, .end_photo_org, .reporter_area
RemoveJunk(nodes) == SelectSeq(nodes, LAMBDA n : ~n.junk)

\* "news.naver.com" in url; a url is the sequence of its components
IsNaverUrl(url) == \E i \in 1..Len(url) : url[i] = "news.naver.com"

\* "본문 내용을 추출할 수 없습니다."
NOT_EXTRACTABLE ==
    <<"k", "k", " ", "k", "k", "k", " ", "k", "k", "k", " ", "k", " ",
      "k", "k", "k", "k", ".">>

\* "기사 내용 추출 실패: "
EXTRACT_FAILED_PREFIX ==
    <<"k", "k", " ", "k", "k", " ", "k", "k", " ", "k", "k", ":", " ">>

\* str(e) of the exception an attempt outcome raises
ErrorText(o) ==
    IF o.kind = "timeout" THEN <<"t", "i", "m", "e", "o", "u", "t">>
    ELSE IF o.kind = "network" THEN <<"n", "e", "t">>
    ELSE IF o.kind = "parse" THEN <<"p", "a", "r", "s", "e">>
    ELSE IF o.kind = "json" THEN <<"j", "s", "o", "n">>
    ELSE IF o.kind = "attribute" THEN <<"a", "t", "t", "r">>
    ELSE IF o.kind = "response" THEN
        <<"H", "T", "T", "P", " ">> \o
        (CASE o.code = 304 -> <<"3", "0", "4">>
           [] o.code = 401 -> <<"4", "0", "1">>
           [] o.code = 403 -> <<"4", "0", "3">>
           [] o.code = 404 -> <<"4", "0", "4">>
           [] o.code = 429 -> <<"4", "2", "9">>
           [] o.code = 500 -> <<"5", "0", "0">>
           [] o.code = 503 -> <<"5", "0", "3">>
           [] OTHER -> <<"?">>)
    ELSE <<"e", "r", "r">>

ParseOutcome == [kind |-> "parse", code |-> 0]

Value(body) == [kind |-> "value", body |-> body, err |-> NoOutcome]
Raised(o) == [kind |-> "exc", body |-> <<>>, err |-> o]
Pending == [kind |-> "pending", body |-> <<>>, err |-> NoOutcome]

\* the paragraph texts the fallback keeps: those longer than the threshold
LongParagraphs(paras) ==
    SelectSeq([i \in 1..Len(paras) |-> GetTextStrip(paras[i].nodes)],
              LAMBDA t : Len(t) > MIN_PARAGRAPH_LENGTH)

\* the conditions under which the three strategies return
NaverStrategyTaken(url, page) == IsNaverUrl(url) /\ page.naver.found

GenericStrategyTaken(url, page) == page.article.found

ParagraphStrategyTaken(url, page) == page.paras # <<>>

\* the text each strategy extracts, whitespace-normalized (content)
NaverContent(page) ==
    NormalizeSpace(GetTextStrip(RemoveJunk(page.naver.nodes)))

GenericContent(page) == NormalizeSpace(GetTextStrip(page.article.nodes))

ParagraphContent(page) ==
    NormalizeSpace(JoinSpace(LongParagraphs(page.paras)))

\* the text each strategy returns: the content, truncated
NaverText(page) == Truncate(NaverContent(page))

GenericText(page) == Truncate(GenericContent(page))

ParagraphText(page) == Truncate(ParagraphContent(page))

\* The body of the try block of extract_article_content once the fetch has
\* returned: BeautifulSoup parsing, then the cascade
ExtractFromPage(url, page) ==
    IF page.parseError THEN Raised(ParseOutcome)
    ELSE IF NaverStrategyTaken(url, page) THEN Value(NaverText(page))
    ELSE IF GenericStrategyTaken(url, page) THEN Value(GenericText(page))
    ELSE IF ParagraphStrategyTaken(url, page) THEN Value(ParagraphText(page))
    ELSE Value(NOT_EXTRACTABLE)

\* except Exception as e: return f"기사 내용 추출 실패: {str(e)}"
\* (variant without the handler, for the sensitivity check of C4)
ExtractCatchMissing(result) == result
ExtractCatch(result) ==
    IF result.kind = "exc"
    THEN Value(EXTRACT_FAILED_PREFIX \o ErrorText(result.err))
    ELSE result

\* How extract_article_content ends once its request frame r has ended with
\* page the document fetched (ignored unless the fetch returned)
ExtractEnd(url, r, page) ==
    ExtractCatch(IF r.pc = "returned" THEN ExtractFromPage(url, page)
                 ELSE Raised(r.result))

(* The pages and urls tried *)

NaverElems ==
    { NoElem,
      Elem(<<>>),
      Elem(<<Node(<<" ", "\n">>)>>),
      Elem(<<JunkNode(<<"s">>)>>),
      Elem(<<Node(<<" ", "n", " ", " ", "n", "\n">>), JunkNode(<<"s">>),
             Node(<<"n">>)>>),
      Elem(<<Node(Rep("n", MAX_CONTENT_LENGTH))>>),
      Elem(<<Node(Rep("n", MAX_CONTENT_LENGTH - 1) \o <<" ", "\n", "n", "n">>)>>) }

ArticleElems ==
    { NoElem,
      Elem(<<>>),
      Elem(<<Node(<<"\t", " ">>)>>),
      Elem(<<Node(<<"r", " ", "\n", "r">>), JunkNode(<<"s">>)>>),
      Elem(<<Node(Rep("r", MAX_CONTENT_LENGTH))>>),
      Elem(<<Node(Rep("r", MAX_CONTENT_LENGTH + 1))>>) }

ParagraphLists ==
    { <<>>,
      <<Elem(<<Node(Rep("p", MIN_PARAGRAPH_LENGTH))>>)>>,
      <<Elem(<<Node(<<" ">>)>>), Elem(<<>>)>>,
      <<Elem(<<Node(Rep("p", MIN_PARAGRAPH_LENGTH + 1))>>),
        Elem(<<Node(<<"c", "a", "p">>)>>),
        Elem(<<Node(<<" ">> \o Rep("q", MIN_PARAGRAPH_LENGTH)), Node(<<"q", " ">>)>>)>>,
      <<Elem(<<Node(Rep("p", MAX_CONTENT_LENGTH - MIN_PARAGRAPH_LENGTH - 2))>>),
        Elem(<<Node(Rep("q", MIN_PARAGRAPH_LENGTH + 1))>>)>>,
      <<Elem(<<Node(Rep("p", MAX_CONTENT_LENGTH - MIN_PARAGRAPH_LENGTH - 1))>>),
        Elem(<<Node(Rep("q", MIN_PARAGRAPH_LENGTH + 1))>>)>> }

NoPage == [parseError |-> FALSE, naver |-> NoElem, article |-> NoElem,
           paras |-> <<>>, fetched |-> FALSE]

Pages ==
    { [parseError |-> FALSE, naver |-> n, article |-> a, paras |-> p,
       fetched |-> TRUE] :
        n \in NaverElems, a \in ArticleElems, p \in ParagraphLists }
    \cup { [parseError |-> TRUE, naver |-> NoElem, article |-> NoElem,
            paras |-> <<>>, fetched |-> TRUE] }

NaverLink == <<"https://", "news.naver.com", "/article/1">>
PublisherLink == <<"https://", "www.daily.example", "/news/2">>

Links == {NaverLink, PublisherLink}

-----------------------------------------------------------------------------
(* The search tools.  A tool's return value is a record naming the message *)
(* template (msg) and what is interpolated into it.                        *)

SEARCH_NEWS == "search_news"
WITH_CONTENT == "search_news_with_content"
COMPARE == "compare_news_perspectives"

Tools == {SEARCH_NEWS, WITH_CONTENT, COMPARE}

Out(msg, kw, detail, total, blocks) ==
    [kind |-> "returned", msg |-> msg, keyword |-> kw, detail |-> detail,
     total |-> total, blocks |-> blocks, perspective |-> FALSE]

Message(msg) == Out(msg, <<>>, <<>>, 0, <<>>)

\* an exception leaving a block, carrying str(e)
Escape(o) ==
    [kind |-> "raised", msg |-> "", keyword |-> <<>>, detail |-> ErrorText(o),
     total |-> 0, blocks |-> <<>>, perspective |-> FALSE]

NoOutput ==
    [kind |-> "pending", msg |-> "", keyword |-> <<>>, detail |-> <<>>,
     total |-> 0, blocks |-> <<>>, perspective |-> FALSE]

\* json.JSONDecodeError from response.json(); AttributeError from .get
JsonOutcome == [kind |-> "json", code |-> 0]
AttributeOutcome == [kind |-> "attribute", code |-> 0]

\* if not keyword or keyword.strip() == ""
\* (variant without the strip, for the sensitivity check of C7)
IsBlankNoStrip(kw) == kw = <<>>
IsBlank(kw) == kw = <<>> \/ Strip(kw) = <<>>

(* The body of a search response *)

NoData == [kind |-> "none", items |-> <<>>, hasTotal |-> FALSE, total |-> 0]

Items ==
    { [title |-> "t1", link |-> NaverLink],
      [title |-> "t2", link |-> PublisherLink] }

ItemLists == UNION { [1..n -> Items] : n \in 0..MaxItems }

SearchResponses ==
    { [kind |-> k, items |-> <<>>, hasTotal |-> FALSE, total |-> 0] :
        k \in {"invalid_json", "not_dict", "no_items_key", "bad_items"} }
    \cup { [kind |-> "ok", items |-> l, hasTotal |-> FALSE, total |-> 0] :
             l \in ItemLists }
    \cup { [kind |-> "ok", items |-> l, hasTotal |-> TRUE, total |-> 57] :
             l \in [1..1 -> Items] }

\* data.get("total", len(data["items"]))
TotalCount(d) == IF d.hasTotal THEN d.total ELSE Len(d.items)

\* f"'{keyword}'에 대한 검색 결과가 없습니다."
NoResults(kw) == Out("no_results", kw, <<>>, 0, <<>>)

\* the numbered block of item i, without and with the article body
\* (variant numbering from zero, for the sensitivity check of C15)
SearchBlockFromZero(i, item) ==
    [num |-> i - 1, title |-> item.title, link |-> item.link,
     hasBody |-> FALSE, body |-> <<>>]
SearchBlock(i, item) ==
    [num |-> i, title |-> item.title, link |-> item.link,
     hasBody |-> FALSE, body |-> <<>>]

ContentBlock(i, item, content) ==
    [num |-> i, title |-> item.title, link |-> item.link,
     hasBody |-> TRUE, body |-> content]

\* the except clauses of search_news for a failed search request
SearchFailureMessage(o) ==
    IF o.kind = "timeout" THEN Message("search_timed_out")
    ELSE IF o.kind = "response" THEN
        IF o.code = 401 \/ o.code = 403 THEN Message("auth_failed")
        ELSE IF o.code = 429 THEN Message("too_many_requests")
        ELSE IF o.code >= 500 THEN Message("server_error")
        ELSE Out("http_error", <<>>, <<>>, o.code, <<>>)
    ELSE IF o.kind = "network" THEN Message("network_problem")
    ELSE Escape(o)

\* The inner try of search_news once its request frame r has ended, with d
\* the body of the response (ignored unless the request returned)
SearchNewsInner(kw, r, d) ==
    IF r.pc = "raised" THEN SearchFailureMessage(r.result)
    ELSE IF r.pc = "fellout" THEN Escape(AttributeOutcome)
    ELSE IF d.kind = "invalid_json" THEN Message("unprocessable_bad_json")
    ELSE IF d.kind = "not_dict" THEN Message("unprocessable_bad_format")
    ELSE IF d.kind = "no_items_key" THEN Message("unprocessable_no_items")
    ELSE IF d.items = <<>> /\ d.kind = "ok" THEN NoResults(kw)
    ELSE IF d.kind = "bad_items" THEN Escape(AttributeOutcome)
    ELSE Out("search_results", kw, <<>>, TotalCount(d),
             [i \in 1..Len(d.items) |-> SearchBlock(i, d.items[i])])

\* except Exception as e of search_news (the outer try)
\* (variant without the handler, for the sensitivity check of C8)
SearchNewsCatchMissing(out) == out
SearchNewsCatch(out) ==
    IF out.kind = "raised"
    THEN Out("search_unexpected_error", <<>>, out.detail, 0, <<>>)
    ELSE out

SearchNews(kw, r, d) == SearchNewsCatch(SearchNewsInner(kw, r, d))

\* TRUE when search_news_with_content goes on to the fan-out
\* (variant without the test for an empty list, for the sensitivity check
\* of C14)
FansOutOnEmpty(r, d) == r.pc = "returned" /\ d.kind = "ok"
FansOut(r, d) == r.pc = "returned" /\ d.kind = "ok" /\ d.items # <<>>

\* The inner try of search_news_with_content from the end of the search
\* request to the fan-out, when it does not fan out
ContentSearchStage(kw, r, d) ==
    IF r.pc = "raised" THEN Escape(r.result)
    ELSE IF r.pc = "fellout" THEN Escape(AttributeOutcome)
    ELSE IF d.kind = "invalid_json" THEN Escape(JsonOutcome)
    ELSE IF d.kind = "not_dict" THEN Escape(AttributeOutcome)
    ELSE IF d.kind = "no_items_key" THEN NoResults(kw)
    ELSE IF d.kind = "bad_items" THEN Escape(AttributeOutcome)
    ELSE NoResults(kw)

\* asyncio.gather(*tasks): the results in the order of the awaitables; the
\* first exception of a task is raised to the awaiter
\* (variant resuming at the first completion, for the sensitivity check of
\* C17)
GatherReadyFirstCompleted(results) ==
    \E i \in 1..Len(results) : results[i].kind # "pending"
GatherReady(results) ==
    \/ \A i \in 1..Len(results) : results[i].kind # "pending"
    \/ \E i \in 1..Len(results) : results[i].kind = "exc"

\* (variant in completion order, for the sensitivity check of C3)
GatherResultsByCompletion(results, order) ==
    [i \in 1..Len(results) |-> results[order[i]]]
GatherResults(results, order) ==
    [i \in 1..Len(results) |-> results[i]]

\* The inner try of search_news_with_content from the join on
ContentAssemble(kw, d, results, order) ==
    IF \E i \in 1..Len(results) : results[i].kind = "exc"
    THEN Escape(results[CHOOSE i \in 1..Len(results) :
                            results[i].kind = "exc"].err)
    ELSE LET contents == GatherResults(results, order)
         IN  Out("content_results", kw, <<>>, TotalCount(d),
                 [i \in 1..Len(d.items) |->
                    ContentBlock(i, d.items[i], contents[i].body)])

\* except Exception as e of search_news_with_content, inner and outer try
ContentInnerCatch(out) ==
    IF out.kind = "raised"
    THEN Out("content_error", <<>>, out.detail, 0, <<>>)
    ELSE out

ContentOuterCatch(out) ==
    IF out.kind = "raised"
    THEN Out("content_unexpected_error", <<>>, out.detail, 0, <<>>)
    ELSE out

SearchNewsWithContent(out) == ContentOuterCatch(ContentInnerCatch(out))

\* compare_news_perspectives around the result of search_news_with_content
ComparePerspectives(out) ==
    IF out.kind = "raised"
    THEN Out("compare_error", <<>>, out.detail, 0, <<>>)
    ELSE [out EXCEPT !.perspective = TRUE]

\* what tool t returns when search_news_with_content ended with out
ContentToolReturn(t, out) ==
    IF t = COMPARE THEN ComparePerspectives(SearchNewsWithContent(out))
    ELSE SearchNewsWithContent(out)

\* "검색어를 입력해주세요."
EnterKeyword == Message("enter_keyword")

\* what tool t returns for a blank keyword
BlankReturn(t) ==
    IF t = COMPARE THEN ComparePerspectives(EnterKeyword) ELSE EnterKeyword

(* The keywords and pages tried *)

Keywords == { <<>>, <<" ">>, <<"\t", " ">>, <<"q">>, <<" ", "q", "\n">> }

ToolPages ==
    { [parseError |-> FALSE, fetched |-> TRUE,
       naver |-> Elem(<<Node(<<" ", "n", " ", " ", "n", "\n">>)>>),
       article |-> Elem(<<Node(<<"r", " ", "\n", "r">>)>>),
       paras |-> <<>>],
      [parseError |-> FALSE, fetched |-> TRUE,
       naver |-> NoElem, article |-> NoElem, paras |-> <<>>],
      [parseError |-> TRUE, fetched |-> TRUE,
       naver |-> NoElem, article |-> NoElem, paras |-> <<>>] }

\* the frame of a function that has ended: its loop variable is gone
PopFrame(r) == IF Ended(r) THEN [r EXCEPT !.attempt = 0] ELSE r

-----------------------------------------------------------------------------
(* extract_publisher.  An item carries its title and its description as    *)
(* strings, and its link as what urlparse reads in it: the scheme, the     *)
(* host part (netloc) and the rest.  An absent key reads as the empty      *)
(* string, as item.get(key, "") makes it.                                  *)

\* position of the first occurrence of pat in s at or after i, 0 if none
FindFrom(s, pat, i) ==
    LET at == {j \in i..(Len(s) - Len(pat) + 1) :
                 SubSeq(s, j, j + Len(pat) - 1) = pat}
    IN  IF at = {} THEN 0 ELSE CHOOSE j \in at : \A k \in at : j <= k

\* pat in s
Contains(s, pat) == FindFrom(s, pat, 1) # 0

RECURSIVE SplitFrom(_, _, _)
\* the pieces of s from position i on, cut at each occurrence of pat found
\* left to right
SplitFrom(s, pat, i) ==
    LET j == FindFrom(s, pat, i)
    IN  IF j = 0 THEN <<SubSeq(s, i, Len(s))>>
        ELSE <<SubSeq(s, i, j - 1)>> \o SplitFrom(s, pat, j + Len(pat))

\* s.split(pat)
Split(s, pat) == SplitFrom(s, pat, 1)

\* s.replace(old, "")
Remove(s, old) == Concat(Split(s, old))

\* " - "
TITLE_SEPARATOR == <<" ", "-", " ">>

\* "출처 : "
SOURCE_MARKER == <<"k", "k", " ", ":", " ">>

\* "알 수 없는 언론사"
UNKNOWN_PUBLISHER == <<"k", " ", "k", " ", "k", "k", " ", "k", "k", "k">>

NAVER_DOMAIN == <<"n", "e", "w", "s", ".", "n", "a", "v", "e", "r", ".", "c", "o", "m">>

WWW_PREFIX == <<"w", "w", "w", ".">>

Url(scheme, netloc, rest) ==
    [scheme |-> scheme, netloc |-> netloc, rest |-> rest]

\* the link "" (falsy)
EmptyLink == Url(<<>>, <<>>, <<>>)

PublisherFromTitle(title) ==
    LET pieces == Split(title, TITLE_SEPARATOR)
    IN  Strip(pieces[Len(pieces)])

PublisherFromDescription(description) ==
    Strip(Split(description, SOURCE_MARKER)[2])

PublisherFromDomain(domain) == Remove(domain, WWW_PREFIX)

ExtractPublisher(item) ==
    IF Contains(item.title, TITLE_SEPARATOR)
    THEN PublisherFromTitle(item.title)
    ELSE IF item.link # EmptyLink
    THEN LET domain == item.link.netloc
         IN  IF /\ Contains(domain, NAVER_DOMAIN)
                /\ Contains(item.description, SOURCE_MARKER)
             THEN PublisherFromDescription(item.description)
             ELSE PublisherFromDomain(domain)
    ELSE UNKNOWN_PUBLISHER

NoItem == [title |-> <<>>, description |-> <<>>, link |-> EmptyLink]

\* titles: none, plain, with a publisher suffix, ending in the separator,
\* with two separators, with overlapping separators
PubTitles ==
    { <<>>,
      <<"A">>,
      <<"A", " ", "-", " ", "P">>,
      <<"A", " ", "-", " ">>,
      <<"A", " ", "-", " ", "B", " ", "-", " ", "P", " ">>,
      <<"A", " ", "-", " ", "-", " ", "P">> }

\* descriptions: none, plain, naming the source, the marker with nothing
\* after it, the marker twice
PubDescriptions ==
    { <<>>,
      <<"d">>,
      <<"d", " ">> \o SOURCE_MARKER \o <<"S", " ">>,
      <<"d", " ">> \o SOURCE_MARKER,
      SOURCE_MARKER \o <<"S">> \o SOURCE_MARKER \o <<"T">> }

\* links: none, a fragment only, a Naver article, its mobile host, a
\* publisher's www host, a publisher's bare host, the host "www."
PubLinks ==
    LET HTTPS == <<"h", "t", "t", "p", "s">>
    IN
    { EmptyLink,
      Url(<<>>, <<>>, <<"#">>),
      Url(HTTPS, NAVER_DOMAIN, <<"/", "1">>),
      Url(HTTPS, <<"m", ".">> \o NAVER_DOMAIN, <<"/", "1">>),
      Url(HTTPS, WWW_PREFIX \o <<"d", ".", "e", "x">>, <<"/", "2">>),
      Url(HTTPS, <<"d", ".", "e", "x">>, <<>>),
      Url(HTTPS, WWW_PREFIX, <<"/">>) }

PubItems ==
    [title : PubTitles, description : PubDescriptions, link : PubLinks]

-----------------------------------------------------------------------------
(* format_date.  strptime reads the string against the format              *)
(* '%a, %d %b %Y %H:%M:%S %z' one directive at a time: a name directive    *)
(* matches one of the names whatever the case, a numeric directive reads a *)
(* run of digits, a blank of the format matches one or more whitespace     *)
(* characters, and nothing may follow the zone.  The fields read must make *)
(* a datetime.  The optional seconds of a zone offset are left out.        *)

DIGITS == <<"0", "1", "2", "3", "4", "5", "6", "7", "8", "9">>

UPPER ==
    <<"A", "B", "C", "D", "E", "F", "G", "H", "I", "J", "K", "L", "M", "N",
      "O", "P", "Q", "R", "S", "T", "U", "V", "W", "X", "Y", "Z">>

LOWER ==
    <<"a", "b", "c", "d", "e", "f", "g", "h", "i", "j", "k", "l", "m", "n",
      "o", "p", "q", "r", "s", "t", "u", "v", "w", "x", "y", "z">>

WEEKDAYS ==
    <<<<"m", "o", "n">>,
      <<"t", "u", "e">>,
      <<"w", "e", "d">>,
      <<"t", "h", "u">>,
      <<"f", "r", "i">>,
      <<"s", "a", "t">>,
      <<"s", "u", "n">>>>

MONTHS ==
    <<<<"j", "a", "n">>,
      <<"f", "e", "b">>,
      <<"m", "a", "r">>,
      <<"a", "p", "r">>,
      <<"m", "a", "y">>,
      <<"j", "u", "n">>,
      <<"j", "u", "l">>,
      <<"a", "u", "g">>,
      <<"s", "e", "p">>,
      <<"o", "c", "t">>,
      <<"n", "o", "v">>,
      <<"d", "e", "c">>>>

IsDigit(c) == \E d \in 1..10 : DIGITS[d] = c

\* c.lower()
Lower(c) ==
    IF \E k \in 1..26 : UPPER[k] = c
    THEN LOWER[CHOOSE k \in 1..26 : UPPER[k] = c]
    ELSE c

\* the character of s at position i, "" past the end
At(s, i) == IF i \in 1..Len(s) THEN s[i] ELSE ""

\* the length of the run of digits of s from position i
DigitRun(s, i) ==
    LET stop == {j \in i..Len(s) : ~IsDigit(s[j])}
    IN  IF stop = {} THEN Len(s) + 1 - i
        ELSE (CHOOSE j \in stop : \A k \in stop : j <= k) - i

\* the length of the run of whitespace of s from position i
SpaceRun(s, i) ==
    LET stop == {j \in i..Len(s) : ~IsSpace(s[j])}
    IN  IF stop = {} THEN Len(s) + 1 - i
        ELSE (CHOOSE j \in stop : \A k \in stop : j <= k) - i

RECURSIVE NumberAt(_, _, _)
\* int(s[i-1 : i-1+n]) for n digits
NumberAt(s, i, n) ==
    IF n = 0 THEN 0
    ELSE NumberAt(s, i, n - 1) * 10
            + (CHOOSE d \in 0..9 : DIGITS[d + 1] = s[i + n - 1])

\* the index in names of the name s carries at position i, 0 if none
NameAt(s, i, names) ==
    IF i + 2 > Len(s) THEN 0
    ELSE LET word == [k \in 1..3 |-> Lower(s[i + k - 1])]
         IN  IF \E n \in 1..Len(names) : names[n] = word
             THEN CHOOSE n \in 1..Len(names) : names[n] = word
             ELSE 0

\* the length of the zone s carries at position i, 0 if none: Z, or a sign,
\* two digits, an optional colon, and two digits below 60
ZoneLength(s, i) ==
    IF At(s, i) = "Z" THEN 1
    ELSE IF /\ At(s, i) \in {"+", "-"}
            /\ IsDigit(At(s, i + 1))
            /\ IsDigit(At(s, i + 2))
    THEN LET m == IF At(s, i + 3) = ":" THEN i + 4 ELSE i + 3
         IN  IF /\ At(s, m) \in {"0", "1", "2", "3", "4", "5"}
                /\ IsDigit(At(s, m + 1))
             THEN m + 2 - i
             ELSE 0
    ELSE 0

DaysInMonth(y, m) ==
    LET leap == y % 4 = 0 /\ (y % 100 # 0 \/ y % 400 = 0)
    IN  IF m = 2 THEN (IF leap THEN 29 ELSE 28)
        ELSE IF m \in {4, 6, 9, 11} THEN 30 ELSE 31

\* what strptime has read so far: the position it is at and the fields
Reading(pos) ==
    [ok |-> TRUE, pos |-> pos, weekday |-> 0, year |-> 0, month |-> 0,
     day |-> 0, hour |-> 0, minute |-> 0, second |-> 0]

\* the string does not match the format, or its fields make no datetime
NoDate == [Reading(0) EXCEPT !.ok = FALSE]

\* %a, %b: one of the names, in any case
ReadName(s, st, names, field) ==
    IF st.ok /\ NameAt(s, st.pos, names) # 0
    THEN [st EXCEPT ![field] = NameAt(s, st.pos, names), !.pos = @ + 3]
    ELSE NoDate

\* a literal character of the format
ReadChar(s, st, c) ==
    IF st.ok /\ At(s, st.pos) = c THEN [st EXCEPT !.pos = @ + 1] ELSE NoDate

\* a blank of the format: one or more whitespace characters
ReadSpace(s, st) ==
    IF st.ok /\ SpaceRun(s, st.pos) >= 1
    THEN [st EXCEPT !.pos = @ + SpaceRun(s, st.pos)]
    ELSE NoDate

\* %d, %Y, %H, %M, %S: a run of digits of one of the lengths, of a value in
\* the range
ReadNumber(s, st, lengths, range, field) ==
    IF /\ st.ok
       /\ DigitRun(s, st.pos) \in lengths
       /\ NumberAt(s, st.pos, DigitRun(s, st.pos)) \in range
    THEN [st EXCEPT ![field] = NumberAt(s, st.pos, DigitRun(s, st.pos)),
                    !.pos = @ + DigitRun(s, st.pos)]
    ELSE NoDate

\* %z; timezone(timedelta(...)) takes offsets of less than a day
ReadZone(s, st) ==
    IF /\ st.ok
       /\ ZoneLength(s, st.pos) # 0
       /\ ZoneLength(s, st.pos) = 1 \/ NumberAt(s, st.pos + 1, 2) < 24
    THEN [st EXCEPT !.pos = @ + ZoneLength(s, st.pos)]
    ELSE NoDate

\* nothing may remain unconverted
ReadEnd(s, st) == IF st.ok /\ st.pos = Len(s) + 1 THEN st ELSE NoDate

\* datetime.strptime(s, '%a, %d %b %Y %H:%M:%S %z'); ok is FALSE where it
\* raises ValueError: the string must match the format, and the fields
\* make a datetime when the year is at least 1 and the month has the day
Strptime(s) ==
    LET weekday == ReadName(s, Reading(1), WEEKDAYS, "weekday")
        comma == ReadSpace(s, ReadChar(s, weekday, ","))
        day == ReadSpace(s, ReadNumber(s, comma, {1, 2}, 1..31, "day"))
        month == ReadSpace(s, ReadName(s, day, MONTHS, "month"))
        year == ReadSpace(s, ReadNumber(s, month, {4}, 0..9999, "year"))
        hour == ReadChar(s, ReadNumber(s, year, {1, 2}, 0..23, "hour"), ":")
        minute ==
            ReadChar(s, ReadNumber(s, hour, {1, 2}, 0..59, "minute"), ":")
        second ==
            ReadSpace(s, ReadNumber(s, minute, {1, 2}, 0..59, "second"))
        read == ReadEnd(s, ReadZone(s, second))
    IN  IF /\ read.ok
           /\ read.year >= 1
           /\ read.day <= DaysInMonth(read.year, read.month)
        THEN read
        ELSE NoDate

\* the decimal digits of n, zero-padded to two
Digits2(n) == <<DIGITS[(n \div 10) + 1], DIGITS[(n % 10) + 1]>>

RECURSIVE Decimal(_)
\* the decimal digits of n, without padding
Decimal(n) ==
    IF n < 10 THEN <<DIGITS[n + 1]>>
    ELSE Decimal(n \div 10) \o <<DIGITS[(n % 10) + 1]>>

\* %Y as the C library under time.strftime writes it: zero-padded to four
\* digits by some (pads), as the bare number by others (glibc)
YearDigits(y, pads) ==
    IF pads THEN Digits2(y \div 100) \o Digits2(y % 100) ELSE Decimal(y)

\* dt.strftime('%Y-%m-%d %H:%M')
Strftime(dt, pads) ==
    YearDigits(dt.year, pads) \o <<"-">> \o Digits2(dt.month) \o <<"-">>
        \o Digits2(dt.day) \o <<" ">> \o Digits2(dt.hour) \o <<":">>
        \o Digits2(dt.minute)

FormatDate(date_str, pads) ==
    LET dt == Strptime(date_str)
    IN  IF dt.ok THEN Strftime(dt, pads) ELSE date_str

(* The date strings format_date is applied to.  A case carries the string, *)
(* whether it was built as a timestamp in the upstream format, the date    *)
(* and time it was built from, written as YYYY-MM-DD HH:MM, and whether    *)
(* the platform's strftime zero-pads the year.                             *)

DateCase(input, wellformed, expected) ==
    [input |-> input, wellformed |-> wellformed, expected |-> expected,
     pads |-> TRUE]

NoDateCase == DateCase(<<>>, FALSE, <<>>)

\* weekday, day month year time zone: every combination is a date that
\* exists
UpstreamCases ==
    LET
        CaseWeekdays == {<<"M", "o", "n">>, <<"t", "u", "e">>}
        CaseDays ==
            {[txt |-> <<"0", "6">>,
               out |-> <<"0", "6">>],
             [txt |-> <<"6">>,
               out |-> <<"0", "6">>],
             [txt |-> <<"2", "8">>,
               out |-> <<"2", "8">>]}
        CaseMonths ==
            {[txt |-> <<"M", "a", "y">>,
               out |-> <<"0", "5">>],
             [txt |-> <<"F", "e", "b">>,
               out |-> <<"0", "2">>],
             [txt |-> <<"D", "e", "c">>,
               out |-> <<"1", "2">>]}
        CaseYears == {<<"2", "0", "2", "5">>, <<"2", "0", "2", "4">>}
        CaseTimes ==
            {[txt |-> <<"1", "0", ":", "3", "0", ":", "0", "0">>,
               out |-> <<"1", "0", ":", "3", "0">>],
             [txt |-> <<"9", ":", "0", "5", ":", "5", "9">>,
               out |-> <<"0", "9", ":", "0", "5">>],
             [txt |-> <<"2", "3", ":", "5", "9", ":", "0", "7">>,
               out |-> <<"2", "3", ":", "5", "9">>]}
        CaseZones == {<<"+", "0", "9", "0", "0">>,
                       <<"-", "0", "5", ":", "3", "0">>}
    IN
    { DateCase(wd \o <<",", " ">> \o d.txt \o <<" ">> \o m.txt \o <<" ">>
                  \o y \o <<" ">> \o t.txt \o <<" ">> \o z,
               TRUE,
               y \o <<"-">> \o m.out \o <<"-">> \o d.out \o <<" ">>
                  \o t.out) :
        wd \in CaseWeekdays, d \in CaseDays, m \in CaseMonths,
        y \in CaseYears, t \in CaseTimes, z \in CaseZones }

\* a year of three digits, a leap day, the last minute of a year, two
\* blanks after the comma, the zone Z
EdgeCases ==
    {DateCase(
        <<"M", "o", "n", ",", " ", "0", "6", " ", "M", "a", "y", " ", "0",
          "9", "9", "9", " ", "1", "0", ":", "3", "0", ":", "0", "0", " ",
          "+", "0", "9", "0", "0">>,
        TRUE,
        <<"0", "9", "9", "9", "-", "0", "5", "-", "0", "6", " ", "1", "0",
          ":", "3", "0">>),
     DateCase(
        <<"T", "h", "u", ",", " ", "2", "9", " ", "F", "e", "b", " ", "2",
          "0", "2", "4", " ", "0", "0", ":", "0", "0", ":", "0", "0", " ",
          "+", "0", "0", "0", "0">>,
        TRUE,
        <<"2", "0", "2", "4", "-", "0", "2", "-", "2", "9", " ", "0", "0",
          ":", "0", "0">>),
     DateCase(
        <<"W", "e", "d", ",", " ", "3", "1", " ", "D", "e", "c", " ", "2",
          "0", "2", "5", " ", "2", "3", ":", "5", "9", ":", "5", "9", " ",
          "+", "0", "9", "0", "0">>,
        TRUE,
        <<"2", "0", "2", "5", "-", "1", "2", "-", "3", "1", " ", "2", "3",
          ":", "5", "9">>),
     DateCase(
        <<"M", "o", "n", ",", " ", " ", "0", "6", " ", "M", "a", "y", " ",
          "2", "0", "2", "5", " ", "1", "0", ":", "3", "0", ":", "0", "0",
          " ", "+", "0", "9", "0", "0">>,
        TRUE,
        <<"2", "0", "2", "5", "-", "0", "5", "-", "0", "6", " ", "1", "0",
          ":", "3", "0">>),
     DateCase(
        <<"S", "a", "t", ",", " ", "0", "1", " ", "J", "a", "n", " ", "2",
          "0", "0", "0", " ", "0", "0", ":", "0", "0", ":", "0", "0", " ",
          "Z">>,
        TRUE,
        <<"2", "0", "0", "0", "-", "0", "1", "-", "0", "1", " ", "0", "0",
          ":", "0", "0">>)}

MalformedCases ==
    { \* the empty string
     DateCase(
        <<>>,
        FALSE,
        <<>>),
     \* the default the callers pass for a missing pubDate
     DateCase(
        <<"k", "k", " ", "k", "k", " ", "k", "k">>,
        FALSE,
        <<"k", "k", " ", "k", "k", " ", "k", "k">>),
     \* an already reformatted date
     DateCase(
        <<"2", "0", "2", "5", "-", "0", "5", "-", "0", "6", " ", "1", "0",
          ":", "3", "0">>,
        FALSE,
        <<"2", "0", "2", "5", "-", "0", "5", "-", "0", "6", " ", "1", "0",
          ":", "3", "0">>),
     \* an ISO 8601 timestamp
     DateCase(
        <<"2", "0", "2", "5", "-", "0", "5", "-", "0", "6", "T", "1", "0",
          ":", "3", "0", ":", "0", "0", "+", "0", "9", ":", "0", "0">>,
        FALSE,
        <<"2", "0", "2", "5", "-", "0", "5", "-", "0", "6", "T", "1", "0",
          ":", "3", "0", ":", "0", "0", "+", "0", "9", ":", "0", "0">>),
     \* a day the month does not have
     DateCase(
        <<"M", "o", "n", ",", " ", "2", "9", " ", "F", "e", "b", " ", "2",
          "0", "2", "5", " ", "1", "0", ":", "3", "0", ":", "0", "0", " ",
          "+", "0", "9", "0", "0">>,
        FALSE,
        <<"M", "o", "n", ",", " ", "2", "9", " ", "F", "e", "b", " ", "2",
          "0", "2", "5", " ", "1", "0", ":", "3", "0", ":", "0", "0", " ",
          "+", "0", "9", "0", "0">>),
     \* a day no month has
     DateCase(
        <<"M", "o", "n", ",", " ", "3", "2", " ", "M", "a", "y", " ", "2",
          "0", "2", "5", " ", "1", "0", ":", "3", "0", ":", "0", "0", " ",
          "+", "0", "9", "0", "0">>,
        FALSE,
        <<"M", "o", "n", ",", " ", "3", "2", " ", "M", "a", "y", " ", "2",
          "0", "2", "5", " ", "1", "0", ":", "3", "0", ":", "0", "0", " ",
          "+", "0", "9", "0", "0">>),
     \* day zero
     DateCase(
        <<"M", "o", "n", ",", " ", "0", "0", " ", "M", "a", "y", " ", "2",
          "0", "2", "5", " ", "1", "0", ":", "3", "0", ":", "0", "0", " ",
          "+", "0", "9", "0", "0">>,
        FALSE,
        <<"M", "o", "n", ",", " ", "0", "0", " ", "M", "a", "y", " ", "2",
          "0", "2", "5", " ", "1", "0", ":", "3", "0", ":", "0", "0", " ",
          "+", "0", "9", "0", "0">>),
     \* hour 24
     DateCase(
        <<"M", "o", "n", ",", " ", "0", "6", " ", "M", "a", "y", " ", "2",
          "0", "2", "5", " ", "2", "4", ":", "0", "0", ":", "0", "0", " ",
          "+", "0", "9", "0", "0">>,
        FALSE,
        <<"M", "o", "n", ",", " ", "0", "6", " ", "M", "a", "y", " ", "2",
          "0", "2", "5", " ", "2", "4", ":", "0", "0", ":", "0", "0", " ",
          "+", "0", "9", "0", "0">>),
     \* minute 60
     DateCase(
        <<"M", "o", "n", ",", " ", "0", "6", " ", "M", "a", "y", " ", "2",
          "0", "2", "5", " ", "1", "0", ":", "6", "0", ":", "0", "0", " ",
          "+", "0", "9", "0", "0">>,
        FALSE,
        <<"M", "o", "n", ",", " ", "0", "6", " ", "M", "a", "y", " ", "2",
          "0", "2", "5", " ", "1", "0", ":", "6", "0", ":", "0", "0", " ",
          "+", "0", "9", "0", "0">>),
     \* no zone
     DateCase(
        <<"M", "o", "n", ",", " ", "0", "6", " ", "M", "a", "y", " ", "2",
          "0", "2", "5", " ", "1", "0", ":", "3", "0", ":", "0", "0">>,
        FALSE,
        <<"M", "o", "n", ",", " ", "0", "6", " ", "M", "a", "y", " ", "2",
          "0", "2", "5", " ", "1", "0", ":", "3", "0", ":", "0", "0">>),
     \* a zone name
     DateCase(
        <<"M", "o", "n", ",", " ", "0", "6", " ", "M", "a", "y", " ", "2",
          "0", "2", "5", " ", "1", "0", ":", "3", "0", ":", "0", "0", " ",
          "G", "M", "T">>,
        FALSE,
        <<"M", "o", "n", ",", " ", "0", "6", " ", "M", "a", "y", " ", "2",
          "0", "2", "5", " ", "1", "0", ":", "3", "0", ":", "0", "0", " ",
          "G", "M", "T">>),
     \* trailing text
     DateCase(
        <<"M", "o", "n", ",", " ", "0", "6", " ", "M", "a", "y", " ", "2",
          "0", "2", "5", " ", "1", "0", ":", "3", "0", ":", "0", "0", " ",
          "+", "0", "9", "0", "0", "x">>,
        FALSE,
        <<"M", "o", "n", ",", " ", "0", "6", " ", "M", "a", "y", " ", "2",
          "0", "2", "5", " ", "1", "0", ":", "3", "0", ":", "0", "0", " ",
          "+", "0", "9", "0", "0", "x">>),
     \* a two-digit year
     DateCase(
        <<"M", "o", "n", ",", " ", "0", "6", " ", "M", "a", "y", " ", "2",
          "5", " ", "1", "0", ":", "3", "0", ":", "0", "0", " ", "+", "0",
          "9", "0", "0">>,
        FALSE,
        <<"M", "o", "n", ",", " ", "0", "6", " ", "M", "a", "y", " ", "2",
          "5", " ", "1", "0", ":", "3", "0", ":", "0", "0", " ", "+", "0",
          "9", "0", "0">>),
     \* year zero
     DateCase(
        <<"M", "o", "n", ",", " ", "0", "6", " ", "M", "a", "y", " ", "0",
          "0", "0", "0", " ", "1", "0", ":", "3", "0", ":", "0", "0", " ",
          "+", "0", "9", "0", "0">>,
        FALSE,
        <<"M", "o", "n", ",", " ", "0", "6", " ", "M", "a", "y", " ", "0",
          "0", "0", "0", " ", "1", "0", ":", "3", "0", ":", "0", "0", " ",
          "+", "0", "9", "0", "0">>),
     \* no comma
     DateCase(
        <<"M", "o", "n", " ", "0", "6", " ", "M", "a", "y", " ", "2", "0",
          "2", "5", " ", "1", "0", ":", "3", "0", ":", "0", "0", " ", "+",
          "0", "9", "0", "0">>,
        FALSE,
        <<"M", "o", "n", " ", "0", "6", " ", "M", "a", "y", " ", "2", "0",
          "2", "5", " ", "1", "0", ":", "3", "0", ":", "0", "0", " ", "+",
          "0", "9", "0", "0">>),
     \* no weekday
     DateCase(
        <<"0", "6", " ", "M", "a", "y", " ", "2", "0", "2", "5", " ", "1",
          "0", ":", "3", "0", ":", "0", "0", " ", "+", "0", "9", "0", "0">>,
        FALSE,
        <<"0", "6", " ", "M", "a", "y", " ", "2", "0", "2", "5", " ", "1",
          "0", ":", "3", "0", ":", "0", "0", " ", "+", "0", "9", "0", "0">>),
     \* an unknown month name
     DateCase(
        <<"M", "o", "n", ",", " ", "0", "6", " ", "M", "a", "i", " ", "2",
          "0", "2", "5", " ", "1", "0", ":", "3", "0", ":", "0", "0", " ",
          "+", "0", "9", "0", "0">>,
        FALSE,
        <<"M", "o", "n", ",", " ", "0", "6", " ", "M", "a", "i", " ", "2",
          "0", "2", "5", " ", "1", "0", ":", "3", "0", ":", "0", "0", " ",
          "+", "0", "9", "0", "0">>),
     \* no seconds
     DateCase(
        <<"M", "o", "n", ",", " ", "0", "6", " ", "M", "a", "y", " ", "2",
          "0", "2", "5", " ", "1", "0", ":", "3", "0", " ", "+", "0", "9",
          "0", "0">>,
        FALSE,
        <<"M", "o", "n", ",", " ", "0", "6", " ", "M", "a", "y", " ", "2",
          "0", "2", "5", " ", "1", "0", ":", "3", "0", " ", "+", "0", "9",
          "0", "0">>)}

DateCases == UpstreamCases \cup EdgeCases \cup MalformedCases

-----------------------------------------------------------------------------
(* SpecRetry: one call of make_request_with_retry against a backend that   *)
(* answers each attempt with any outcome.                                  *)

IdleExtract ==
    /\ exUrl = <<>>
    /\ exReq = NoFrame
    /\ exPage = NoPage
    /\ exResult = Pending

IdleTool ==
    /\ tool = "none"
    /\ toolPc = "idle"
    /\ keyword = <<>>
    /\ search = NoFrame
    /\ data = NoData
    /\ tasks = <<>>
    /\ taskResult = <<>>
    /\ completionOrder = <<>>
    /\ httpAttempted = FALSE
    /\ output = NoOutput

IdleRetry ==
    /\ req = NoFrame
    /\ history = <<>>
    /\ logs = <<>>
    /\ delays = 0

IdlePure ==
    /\ pubItem = NoItem
    /\ pubResult = Pending
    /\ fdCase = NoDateCase
    /\ fdOnce = Pending
    /\ fdTwice = Pending

InitRetry ==
    /\ \E max \in 0..MaxAttemptsArg : req = StartRequest(max)
    /\ history = <<>>
    /\ logs = <<>>
    /\ delays = 0
    /\ IdleExtract
    /\ IdleTool
    /\ IdlePure

RetryAttempt ==
    /\ req.pc = "get"
    /\ \E o \in Outcomes :
        /\ req' = AttemptDone(req, o)
        /\ history' = Append(history, o)
        /\ logs' = logs \o LogEntries(o)
        /\ delays' = IF AttemptDone(req, o).pc = "sleep"
                     THEN delays + 1 ELSE delays
    /\ UNCHANGED <<extractVars, toolVars, pureVars>>

RetrySleepDone ==
    /\ req.pc = "sleep"
    /\ req' = SleepDone(req)
    /\ UNCHANGED <<history, logs, delays, extractVars, toolVars, pureVars>>

NextRetry == RetryAttempt \/ RetrySleepDone

SpecRetry == InitRetry /\ [][NextRetry]_vars

-----------------------------------------------------------------------------
(* SpecExtract: one call of extract_article_content(url, client) against   *)
(* a publisher that answers each attempt with any outcome and any page.    *)

InitExtract ==
    /\ \E url \in Links : exUrl = url
    /\ exReq = StartRequest(MAX_RETRIES)
    /\ exPage = NoPage
    /\ exResult = Pending
    /\ IdleRetry
    /\ IdleTool
    /\ IdlePure

\* A GET of the article ends; a success is parsed and extracted at once
ExtractAttempt ==
    /\ exReq.pc = "get"
    /\ \E o \in Outcomes, page \in Pages :
        LET r == AttemptDone(exReq, o)
        IN  /\ exReq' = r
            /\ exPage' = IF r.pc = "returned" THEN page ELSE NoPage
            /\ exResult' = IF Ended(r) THEN ExtractEnd(exUrl, r, page)
                           ELSE Pending
    /\ UNCHANGED <<exUrl, retryVars, toolVars, pureVars>>

ExtractSleepDone ==
    /\ exReq.pc = "sleep"
    /\ exReq' = SleepDone(exReq)
    /\ UNCHANGED <<exUrl, exPage, exResult, retryVars, toolVars, pureVars>>

NextExtract == ExtractAttempt \/ ExtractSleepDone

SpecExtract == InitExtract /\ [][NextExtract]_vars

-----------------------------------------------------------------------------
(* SpecPublisher: one call of extract_publisher(item) on any item.         *)

InitPublisher ==
    /\ \E item \in PubItems : pubItem = item
    /\ pubResult = Pending
    /\ fdCase = NoDateCase
    /\ fdOnce = Pending
    /\ fdTwice = Pending
    /\ IdleRetry
    /\ IdleExtract
    /\ IdleTool

PublisherCall ==
    /\ pubResult = Pending
    /\ pubResult' = Value(ExtractPublisher(pubItem))
    /\ UNCHANGED <<pubItem, fdCase, fdOnce, fdTwice,
                   retryVars, extractVars, toolVars>>

NextPublisher == PublisherCall

SpecPublisher == InitPublisher /\ [][NextPublisher]_vars

-----------------------------------------------------------------------------
(* SpecDate: format_date applied to a date string, then to its own result. *)

InitDate ==
    /\ \E c \in DateCases, pads \in BOOLEAN :
        fdCase = [c EXCEPT !.pads = pads]
    /\ fdOnce = Pending
    /\ fdTwice = Pending
    /\ pubItem = NoItem
    /\ pubResult = Pending
    /\ IdleRetry
    /\ IdleExtract
    /\ IdleTool

FormatOnce ==
    /\ fdOnce = Pending
    /\ fdOnce' = Value(FormatDate(fdCase.input, fdCase.pads))
    /\ UNCHANGED <<fdCase, fdTwice, pubItem, pubResult,
                   retryVars, extractVars, toolVars>>

FormatTwice ==
    /\ fdOnce # Pending
    /\ fdTwice = Pending
    /\ fdTwice' = Value(FormatDate(fdOnce.body, fdCase.pads))
    /\ UNCHANGED <<fdCase, fdOnce, pubItem, pubResult,
                   retryVars, extractVars, toolVars>>

NextDate == FormatOnce \/ FormatTwice

SpecDate == InitDate /\ [][NextDate]_vars

-----------------------------------------------------------------------------
(* Spec: one invocation of one of the three search tools.                  *)

Init ==
    /\ IdleTool
    /\ IdleRetry
    /\ IdleExtract
    /\ IdlePure

\* The tool function runs from its call to its first await, or to its
\* return for a blank keyword
Invoke ==
    /\ toolPc = "idle"
    /\ \E t \in Tools, kw \in Keywords :
        /\ tool' = t
        /\ IF IsBlank(kw)
           THEN /\ keyword' = kw
                /\ toolPc' = "done"
                /\ output' = BlankReturn(t)
                /\ UNCHANGED <<search, httpAttempted>>
           ELSE /\ keyword' = Strip(kw)
                /\ toolPc' = "search"
                /\ search' = StartRequest(MAX_RETRIES)
                /\ httpAttempted' = TRUE
                /\ UNCHANGED output
    /\ UNCHANGED <<data, tasks, taskResult, completionOrder>>
    /\ UNCHANGED <<retryVars, extractVars, pureVars>>

\* A GET of the search request ends; when the request ends with it, the
\* tool runs on to its return or to the await of the gather
SearchAttempt ==
    /\ toolPc = "search"
    /\ search.pc = "get"
    /\ \E o \in Outcomes, d \in SearchResponses :
        LET r == AttemptDone(search, o)
        IN  /\ search' = PopFrame(r)
            /\ data' = IF r.pc = "returned" THEN d ELSE NoData
            /\ IF ~Ended(r)
               THEN UNCHANGED <<toolPc, output, tasks, taskResult>>
               ELSE IF tool = SEARCH_NEWS
               THEN /\ toolPc' = "done"
                    /\ output' = SearchNews(keyword, r, d)
                    /\ UNCHANGED <<tasks, taskResult>>
               ELSE IF FansOut(r, d)
               THEN /\ toolPc' = "gather"
                    /\ tasks' = [i \in 1..Len(d.items) |->
                                    StartRequest(MAX_RETRIES)]
                    /\ taskResult' = [i \in 1..Len(d.items) |-> Pending]
                    /\ UNCHANGED output
               ELSE /\ toolPc' = "done"
                    /\ output' = ContentToolReturn(tool,
                                    ContentSearchStage(keyword, r, d))
                    /\ UNCHANGED <<tasks, taskResult>>
    /\ UNCHANGED <<tool, keyword, completionOrder, httpAttempted>>
    /\ UNCHANGED <<retryVars, extractVars, pureVars>>

SearchSleepDone ==
    /\ toolPc = "search"
    /\ search.pc = "sleep"
    /\ search' = SleepDone(search)
    /\ UNCHANGED <<tool, toolPc, keyword, data, tasks, taskResult,
                   completionOrder, httpAttempted, output>>
    /\ UNCHANGED <<retryVars, extractVars, pureVars>>

\* A GET of extraction i ends; when the request ends with it, so does the
\* extraction
TaskAttempt ==
    /\ toolPc = "gather"
    /\ \E i \in 1..Len(tasks) :
        /\ tasks[i].pc = "get"
        /\ \E o \in PublisherOutcomes, page \in ToolPages :
            LET r == AttemptDone(tasks[i], o)
            IN  /\ tasks' = [tasks EXCEPT ![i] = PopFrame(r)]
                /\ IF Ended(r)
                   THEN /\ taskResult' =
                              [taskResult EXCEPT
                                 ![i] = ExtractEnd(data.items[i].link, r, page)]
                        /\ completionOrder' = Append(completionOrder, i)
                   ELSE UNCHANGED <<taskResult, completionOrder>>
    /\ UNCHANGED <<tool, toolPc, keyword, search, data, httpAttempted, output>>
    /\ UNCHANGED <<retryVars, extractVars, pureVars>>

TaskSleepDone ==
    /\ toolPc = "gather"
    /\ \E i \in 1..Len(tasks) :
        /\ tasks[i].pc = "sleep"
        /\ tasks' = [tasks EXCEPT ![i] = SleepDone(tasks[i])]
    /\ UNCHANGED <<tool, toolPc, keyword, search, data, taskResult,
                   completionOrder, httpAttempted, output>>
    /\ UNCHANGED <<retryVars, extractVars, pureVars>>

\* The gather is over: the tool assembles the bundle and returns
GatherJoin ==
    /\ toolPc = "gather"
    /\ GatherReady(taskResult)
    /\ toolPc' = "done"
    /\ output' = ContentToolReturn(tool,
                    ContentAssemble(keyword, data, taskResult, completionOrder))
    /\ UNCHANGED <<tool, keyword, search, data, tasks, taskResult,
                   completionOrder, httpAttempted>>
    /\ UNCHANGED <<retryVars, extractVars, pureVars>>

Next ==
    \/ Invoke
    \/ SearchAttempt
    \/ SearchSleepDone
    \/ TaskAttempt
    \/ TaskSleepDone
    \/ GatherJoin

Spec == Init /\ [][Next]_vars

\* The event loop runs every coroutine that is ready: a GET ends within its
\* timeout, a sleep ends, and a finished gather resumes its awaiter
FairSpec == Spec /\ WF_vars(Next)

-----------------------------------------------------------------------------
(* Properties of make_request_with_retry (SpecRetry) *)

\* attempt i was followed by a retry: another attempt was made after it, or
\* the call is on its way to one
Retried(i) == i < Len(history) \/ req.pc \in {"sleep", "get"}

\* C1: with max_retries = 3, 503 on the first two attempts and a success on
\* the third end the call by returning that response; a 404 on the first
\* attempt ends the call there by raising it; a 429 or >= 500 status is
\* retried while attempts remain and any other non-2xx status never is.
C1_RetryOnlyRetryableStatus ==
    /\ ( /\ req.max = 3
         /\ Len(history) = 3
         /\ history[1] = Response(503)
         /\ history[2] = Response(503)
         /\ history[3].kind = "response"
         /\ history[3].code \in 200..299 )
       => (req.pc = "returned" /\ req.result = history[3])
    /\ (Len(history) >= 1 /\ history[1] = Response(404))
       => ( /\ Len(history) = 1
            /\ req.pc = "raised"
            /\ req.result = Response(404) )
    /\ \A i \in 1..Len(history) :
        LET o == history[i]
            statusError == o.kind = "response" /\ o.code \notin 200..299
        IN  /\ (statusError /\ (o.code = 429 \/ o.code >= 500) /\ i < req.max)
               => Retried(i)
            /\ (statusError /\ ~(o.code = 429 \/ o.code >= 500))
               => ( /\ ~Retried(i)
                    /\ req.pc = "raised"
                    /\ req.result = o )

C1_Witness ==
    /\ req.max = 3
    /\ history = <<Response(503), Response(503), Response(200)>>
    /\ req.pc = "returned"

\* C2: for max_retries >= 1 at most max_retries attempts are made, and when
\* the last of them fails too the call ends by raising that attempt's
\* failure, whatever its kind.
C2_BoundedAttemptsRaiseLast ==
    req.max >= 1 =>
        /\ Len(history) <= req.max
        /\ ( /\ Len(history) = req.max
             /\ ~( /\ history[req.max].kind = "response"
                   /\ history[req.max].code \in 200..299 ) )
           => ( /\ req.pc = "raised"
                /\ req.result = history[req.max]
                /\ req.result.kind \in {"timeout", "network", "other", "response"} )

C2_Witness ==
    /\ req.max = 3
    /\ history = <<TimeoutOutcome, Response(503), NetworkOutcome>>
    /\ req.pc = "raised"
    /\ req.result = NetworkOutcome

-----------------------------------------------------------------------------
(* Properties of the tools (Spec, FairSpec) *)

FannedOut == tasks # <<>>

\* C3: in the bundle of search_news_with_content block i carries item i and
\* the body that extraction i returned, whatever the order in which the
\* extractions ended.
C3_BodiesByOriginalIndex ==
    (toolPc = "done" /\ output.msg = "content_results") =>
        /\ Len(output.blocks) = Len(data.items)
        /\ \A i \in 1..Len(data.items) :
            /\ output.blocks[i].num = i
            /\ output.blocks[i].link = data.items[i].link
            /\ output.blocks[i].title = data.items[i].title
            /\ output.blocks[i].body = taskResult[i].body

C3_Witness ==
    /\ toolPc = "done"
    /\ output.msg = "content_results"
    /\ completionOrder = <<2, 1>>
    /\ taskResult[1].body # taskResult[2].body
    /\ output.blocks[1].body = taskResult[1].body

\* C4: an extraction never ends by raising: when its fetch failed its result
\* is the failure message, and the tool still returns the bundle with one
\* block per item, every block carrying its own extraction's result.
C4_ExtractionFailureContained ==
    /\ \A i \in 1..Len(taskResult) :
        /\ taskResult[i].kind # "exc"
        /\ tasks[i].pc = "raised" =>
            /\ taskResult[i].kind = "value"
            /\ Len(taskResult[i].body) > Len(EXTRACT_FAILED_PREFIX)
            /\ SubSeq(taskResult[i].body, 1, Len(EXTRACT_FAILED_PREFIX))
                 = EXTRACT_FAILED_PREFIX
    /\ (toolPc = "done" /\ FannedOut) =>
        /\ output.kind = "returned"
        /\ output.msg = "content_results"
        /\ Len(output.blocks) = Len(data.items)
        /\ \A i \in 1..Len(data.items) :
            /\ taskResult[i].kind = "value"
            /\ output.blocks[i].body = taskResult[i].body

C4_Witness ==
    /\ toolPc = "done"
    /\ Len(tasks) = 2
    /\ tasks[1].pc = "raised"
    /\ tasks[1].result = TimeoutOutcome
    /\ tasks[2].pc = "returned"
    /\ output.msg = "content_results"
    /\ output.blocks[2].body = <<"r", " ", "r">>

\* the message the failure classes of the search call select
ClassifiedMessage(o) ==
    CASE o.kind = "timeout" -> "search_timed_out"
      [] o.kind = "network" -> "network_problem"
      [] o.kind = "response" /\ o.code \in {401, 403} -> "auth_failed"
      [] o.kind = "response" /\ o.code = 429 -> "too_many_requests"
      [] o.kind = "response" /\ o.code >= 500 -> "server_error"
      [] OTHER -> "http_error"

\* C5: when the search call fails with a timeout, a status or a network
\* error, search_news and search_news_with_content return the message that
\* failure class selects.
C5_FailureClassSelectsMessage ==
    ( /\ toolPc = "done"
      /\ tool \in {SEARCH_NEWS, WITH_CONTENT}
      /\ search.pc = "raised"
      /\ search.result.kind \in {"timeout", "network", "response"} )
    => /\ output.kind = "returned"
       /\ output.msg = ClassifiedMessage(search.result)
       /\ output.msg = "http_error" => output.total = search.result.code

\* C6: a search response that is not valid JSON, or lacks the items field,
\* is answered by search_news and search_news_with_content with a "could
\* not process results" message.
C6_MalformedResponseMessage ==
    ( /\ toolPc = "done"
      /\ tool \in {SEARCH_NEWS, WITH_CONTENT}
      /\ search.pc = "returned"
      /\ data.kind \in {"invalid_json", "no_items_key"} )
    => /\ output.kind = "returned"
       /\ output.msg \in {"unprocessable_bad_json", "unprocessable_no_items"}

\* C7: for an empty or whitespace-only keyword search_news and
\* search_news_with_content return the "enter a search term" message and
\* issue no GET, neither to the search API nor to a publisher.
C7_BlankKeywordRejected ==
    ( /\ toolPc # "idle"
      /\ tool \in {SEARCH_NEWS, WITH_CONTENT}
      /\ \A i \in 1..Len(keyword) : keyword[i] \in {" ", "\t", "\n"} )
    => /\ toolPc = "done"
       /\ output.kind = "returned"
       /\ output.msg = "enter_keyword"
       /\ ~output.perspective
       /\ ~httpAttempted
       /\ search.pc = "none"
       /\ tasks = <<>>

C7_Witness ==
    /\ toolPc = "done"
    /\ tool = WITH_CONTENT
    /\ keyword = <<"\t", " ">>
    /\ output.msg = "enter_keyword"

\* C8: every invocation of the three tools comes to an end, and ends by
\* returning: no exception leaves the tool function.
C8_ToolsAlwaysReturn ==
    /\ [](toolPc = "done" => output.kind = "returned")
    /\ <>(toolPc = "done")

C8_Witness ==
    /\ toolPc = "done"
    /\ tool = SEARCH_NEWS
    /\ output.kind = "returned"
    /\ output.msg = "search_unexpected_error"
    /\ search.pc = "raised"

-----------------------------------------------------------------------------
(* Properties of extract_article_content (SpecExtract) *)

\* the text each strategy yields for the url and page of the call
Yield1 == IF IsNaverUrl(exUrl) /\ exPage.naver.found
          THEN NaverText(exPage) ELSE <<>>
Yield2 == IF exPage.article.found THEN GenericText(exPage) ELSE <<>>
Yield3 == IF exPage.paras # <<>> THEN ParagraphText(exPage) ELSE <<>>

Extracted ==
    exPage.fetched /\ ~exPage.parseError /\ exResult.kind = "value"

\* C9: the body is the text of the first strategy, in priority order, that
\* yields non-empty text; a strategy that finds an element with no text is
\* passed over.
C9_FirstNonEmptyStrategyWins ==
    (Extracted /\ (Yield1 # <<>> \/ Yield2 # <<>> \/ Yield3 # <<>>)) =>
        exResult.body =
            IF Yield1 # <<>> THEN Yield1
            ELSE IF Yield2 # <<>> THEN Yield2
            ELSE Yield3

\* C10: when no strategy yields text the body is the "content not
\* extractable" sentinel, so the body of a fetched page is never empty.
C10_SentinelWhenNoText ==
    Extracted =>
        /\ exResult.body # <<>>
        /\ (Yield1 = <<>> /\ Yield2 = <<>> /\ Yield3 = <<>>)
           => exResult.body = NOT_EXTRACTABLE

\* the content of the strategy that returns for the url and page of the
\* call: the first whose selector matches
Content1 == NaverContent(exPage)
Content2 == GenericContent(exPage)
Content3 == ParagraphContent(exPage)

Taken1 == IsNaverUrl(exUrl) /\ exPage.naver.found
Taken2 == ~Taken1 /\ exPage.article.found
Taken3 == ~Taken1 /\ ~exPage.article.found /\ exPage.paras # <<>>

TakenContent ==
    IF Taken1 THEN Content1 ELSE IF Taken2 THEN Content2 ELSE Content3

FromStrategy == Extracted /\ (Taken1 \/ Taken2 \/ Taken3)

C12_TruncationExact ==
    FromStrategy =>
        LET t == TakenContent
        IN  IF Len(t) > MAX_CONTENT_LENGTH
            THEN /\ Len(exResult.body) = MAX_CONTENT_LENGTH + 3
                 /\ \A k \in 1..MAX_CONTENT_LENGTH : exResult.body[k] = t[k]
                 /\ \A k \in 1..3 : exResult.body[MAX_CONTENT_LENGTH + k] = "."
            ELSE exResult.body = t

C12_Witness ==
    /\ FromStrategy
    /\ Taken3
    /\ Len(TakenContent) = MAX_CONTENT_LENGTH
    /\ exResult.body = TakenContent

-----------------------------------------------------------------------------
\* C13: extract_publisher never returns an empty string: for every item,
\* a title ending in the separator and a link without a host part included,
\* the result is a non-empty publisher name or the sentinel
C13_PublisherNeverEmpty ==
    pubResult.kind = "value" => pubResult.body # <<>>

\* "YYYY-MM-DD HH:MM": sixteen characters, digits around the separators
SortableShape(s) ==
    /\ Len(s) = 16
    /\ \A i \in {1, 2, 3, 4, 6, 7, 9, 10, 12, 13, 15, 16} : IsDigit(s[i])
    /\ s[5] = "-" /\ s[8] = "-" /\ s[11] = " " /\ s[14] = ":"

\* C16: format_date reformats a wellformed timestamp in the upstream
\* format to YYYY-MM-DD HH:MM, returns any malformed input unchanged, and
\* applied to its own result returns that result
C16_FormatDate ==
    /\ fdOnce # Pending =>
        /\ fdOnce.kind = "value"
        /\ fdCase.wellformed =>
            SortableShape(fdOnce.body) /\ fdOnce.body = fdCase.expected
        /\ ~fdCase.wellformed => fdOnce.body = fdCase.input
    /\ fdTwice # Pending => fdTwice = fdOnce

-----------------------------------------------------------------------------
(* Properties of the search tools, continued (Spec) *)

\* the search response read was a list of no items
EmptyResponse == data.kind = "ok" /\ data.items = <<>>

\* C14: when the search response holds no items, search_news and
\* search_news_with_content return the 'no results' message with the
\* trimmed keyword in it, and no extraction was started
C14_NoResultsMessage ==
    (toolPc = "done" /\ tool \in {SEARCH_NEWS, WITH_CONTENT} /\ EmptyResponse)
        => /\ output = NoResults(output.keyword)
           /\ output.keyword = keyword
           /\ output.keyword # <<>>
           /\ ~IsSpace(Head(output.keyword))
           /\ ~IsSpace(output.keyword[Len(output.keyword)])
           /\ tasks = <<>>
           /\ taskResult = <<>>
           /\ completionOrder = <<>>

C14_Witness ==
    /\ toolPc = "done"
    /\ tool = WITH_CONTENT
    /\ EmptyResponse
    /\ output.msg = "no_results"
    /\ output.keyword = <<"q">>

\* C15: for a search response of N >= 1 items, search_news returns N
\* blocks, numbered 1..N, block i built from the i-th item of the response
C15_BlocksNumberedInOrder ==
    (toolPc = "done" /\ tool = SEARCH_NEWS /\ data.kind = "ok"
        /\ Len(data.items) >= 1)
        => /\ output.msg = "search_results"
           /\ Len(output.blocks) = Len(data.items)
           /\ \A i \in 1..Len(data.items) :
                /\ output.blocks[i].num = i
                /\ output.blocks[i].title = data.items[i].title
                /\ output.blocks[i].link = data.items[i].link

C15_Witness ==
    /\ toolPc = "done"
    /\ tool = SEARCH_NEWS
    /\ data.kind = "ok"
    /\ Len(data.items) = 2
    /\ data.items[1] # data.items[2]
    /\ Len(output.blocks) = 2
    /\ output.blocks[2].num = 2

\* extraction i is in flight: launched, and its request not over
InFlight(i) == tasks[i].pc \in {"get", "sleep"}

\* C17: search_news_with_content returns its bundle only when every
\* extraction it launched has ended with a text or a failure message; the
\* bundle has a block with a body for each; and while it waits, an
\* extraction that has not ended is still in flight, whatever became of
\* the others
C17_BarrierJoin ==
    /\ (toolPc = "done" /\ tasks # <<>>)
        => /\ \A i \in 1..Len(tasks) :
                Ended(tasks[i]) /\ taskResult[i].kind = "value"
           /\ Len(completionOrder) = Len(tasks)
           /\ output.msg = "content_results"
           /\ Len(output.blocks) = Len(tasks)
           /\ \A i \in 1..Len(tasks) :
                output.blocks[i].body = taskResult[i].body
    /\ toolPc = "gather"
        => \A i \in 1..Len(tasks) :
                taskResult[i].kind = "pending" <=> InFlight(i)

C17_Witness ==
    /\ toolPc = "done"
    /\ Len(tasks) = 2
    /\ completionOrder = <<1, 2>>
    /\ tasks[1].pc = "raised"
    /\ tasks[2].pc = "returned"
    /\ output.msg = "content_results"

-----------------------------------------------------------------------------
(* Properties of make_request_with_retry, continued (SpecRetry) *)

Warnings == {i \in 1..Len(logs) : logs[i] = "warning"}

RetriedFailures ==
    {i \in 1..Len(history) : ~IsSuccess(history[i]) /\ Retried(i)}

\* C18 as stated: the number of warning-level log entries equals the number
\* of failed attempts that were followed by a retry, whatever the kind of
\* failure, and an attempt that is not retried emits no warning
C18_OneWarningPerRetriedAttempt ==
    Cardinality(Warnings) = Cardinality(RetriedFailures)

\* C18: every failed attempt emits exactly one log entry, retried or not:
\* a warning when the attempt timed out, an error otherwise; a successful
\* attempt emits none
C18_OneEntryPerFailedAttempt ==
    /\ \A i \in 1..Len(history) :
        IF IsSuccess(history[i])
        THEN i = Len(history) /\ Len(logs) = i - 1
        ELSE /\ i <= Len(logs)
             /\ logs[i] = "warning" <=> history[i].kind = "timeout"
             /\ logs[i] = "error" <=> history[i].kind # "timeout"
    /\ Len(logs) <= Len(history)

C18_Witness ==
    /\ req.pc = "raised"
    /\ history = <<TimeoutOutcome, Response(503), TimeoutOutcome>>
    /\ logs = <<"warning", "error", "warning">>

\* C19: the delay occurs once between two consecutive attempts and nowhere
\* else: a call that ended after k >= 1 attempts made k - 1 delays, a call
\* that made no attempt made none, and a call under way has made as many
\* delays as attempts have ended
C19_DelaysBetweenAttempts ==
    /\ req.pc \in {"returned", "raised"} => delays = Len(history) - 1
    /\ req.pc = "fellout" => delays = 0 /\ history = <<>>
    /\ req.pc = "get" => delays = Len(history) /\ req.attempt = Len(history)
    /\ req.pc = "sleep" => delays = Len(history)
    /\ (req.pc \in {"get", "sleep"} /\ Len(history) >= 1)
        => ~IsSuccess(history[Len(history)])

C19_Witness ==
    /\ req.max = 3
    /\ req.pc = "returned"
    /\ history = <<TimeoutOutcome, Response(503), Response(200)>>
    /\ delays = 2

\* C20: for max_retries >= 1 the call ends by returning a 2xx response or
\* by raising a failure, never by running out of the loop; it runs out of
\* the loop only for max_retries <= 0, having made no attempt
C20_ReturnsResponseOrRaises ==
    /\ req.max >= 1 =>
        /\ req.pc # "fellout"
        /\ req.pc = "returned" =>
            /\ IsSuccess(req.result)
            /\ req.result = history[Len(history)]
        /\ req.pc = "raised" =>
            /\ req.result.kind \in {"timeout", "network", "other", "response"}
            /\ ~IsSuccess(req.result)
            /\ req.result = history[Len(history)]
    /\ req.pc = "fellout" =>
        /\ req.max <= 0
        /\ history = <<>>
        /\ req.result = NoOutcome

C20_Witness ==
    /\ req.max = 1
    /\ req.pc = "raised"
    /\ history = <<Response(500)>>
    /\ req.result = Response(500)

====
